---- MODULE Spec2Model ----
(***************************************************************************)
(* Model of wpactrl.rs: the typed wrapper (WpaCtrl / WpaCtrlAttached)      *)
(* around the wpa_ctrl transport primitives.                               *)
(*                                                                         *)
(* Text is modelled as bytes.  A byte string is a record                   *)
(*   [body |-> <<b1, ..., bn>>, pad |-> k]                                 *)
(* standing for the bytes b1..bn followed by k copies of the ASCII byte    *)
(* 'x' (120); this keeps replies of 10240 and 10241 bytes representable.   *)
(* No body used below ends in 'x', so the representation is unique.        *)
(***************************************************************************)
EXTENDS Integers, Sequences, FiniteSets, TLC

\* ---- bounds of the model ------------------------------------------------
MaxOps == 4          \* API calls made on one connection
MaxQueue == 2        \* events the daemon queues for one connection
ConcOps == 3         \* API calls of each of two concurrent threads
ConcQueue == 1       \* events queued for each of their connections

\* ---- program constants --------------------------------------------------
BufCap == 10240      \* capacity of the reply buffer (request_helper, recv)

Conns == {1, 2}      \* connections the program may open
NullHandle == 0
HandleOf(c) == c     \* the non-null pointer wpa_ctrl_open2 returns for c

\* ---- byte strings -------------------------------------------------------
B(body, pad) == [body |-> body, pad |-> pad]
LenB(b) == Len(b.body) + b.pad
Empty == B(<< >>, 0)

StrOK == B(<<79, 75, 10>>, 0)                    \* "OK\n"
StrPONG == B(<<80, 79, 78, 71, 10>>, 0)          \* "PONG\n"
StrATTACH == B(<<65, 84, 84, 65, 67, 72>>, 0)    \* "ATTACH"
StrDETACH == B(<<68, 69, 84, 65, 67, 72>>, 0)    \* "DETACH"
StrPING == B(<<80, 73, 78, 71>>, 0)              \* "PING"
StrNUL == B(<<80, 0, 71>>, 0)                    \* "P\0G"

\* Commands a caller passes to request().
Commands == {StrPING, StrATTACH, StrDETACH, StrNUL}

\* Reply bodies the daemon may write: "OK\n", "PONG\n", "O" followed by the
\* invalid byte 0xFF, and the two-byte encoding of U+00E9.
ReplyBodies == {StrOK.body, StrPONG.body, <<79, 255>>, <<195, 169>>}

\* Replies of exactly the capacity and of one byte more than the capacity,
\* the latter both as text and with the invalid byte 0xFF in it.
LongReplies ==
  {B(StrPONG.body, BufCap - 5), B(StrPONG.body, BufCap + 1 - 5),
   B(<<79, 255>>, BufCap + 1 - 2)}
Replies == {B(body, 0) : body \in ReplyBodies} \cup LongReplies

\* Event messages the daemon may queue: a text, bytes that are not UTF-8,
\* and a text one byte longer than the buffer.
EvA == B(<<60, 51, 62, 65>>, 0)                  \* "<3>A"
EvBad == B(<<60, 192, 62>>, 0)
EvLong == B(<<60, 51, 62>>, BufCap + 1 - 3)
Events == {EvA, EvBad, EvLong}

\* Status codes (c_int) the transport primitives may return.
RequestCodes == {0, -1, -2, 1, -3}
PendingErrCodes == {-1, -2, 2}
RecvErrCodes == {-1, -2, 3}

\* ---- results ------------------------------------------------------------
Res(kind, code, str) == [kind |-> kind, code |-> code, str |-> str]
Ok(str) == Res("Ok", 0, str)
OkBool(b) == Res(IF b THEN "OkTrue" ELSE "OkFalse", 0, Empty)
ErrFailure == Res("Failure", 0, Empty)
ErrInterface == Res("Interface", 0, Empty)
ErrTimeout == Res("Timeout", 0, Empty)
ErrUnknown(x) == Res("Unknown", x, Empty)
ErrDecode == Res("DecodeError", 0, Empty)
ErrNul == Res("InvalidCommand", 0, Empty)
Aborted == Res("Abort", 0, Empty)
NoRes == Res("None", 0, Empty)

\* ---- pure functions -----------------------------------------------------
IsCont(b) == b \in 128..191

\* std::str validation as used by String::from_utf8.
RECURSIVE IsUtf8(_)
IsUtf8(s) ==
  IF s = << >> THEN TRUE
  ELSE LET b == s[1]
           n == Len(s)
           rest(k) == IF n >= k THEN SubSeq(s, k, n) ELSE << >>
       IN  IF b < 128 THEN IsUtf8(Tail(s))
           ELSE IF b \in 194..223
             THEN n >= 2 /\ IsCont(s[2]) /\ IsUtf8(rest(3))
           ELSE IF b \in 224..239
             THEN /\ n >= 3
                  /\ s[2] \in (IF b = 224 THEN 160..191
                               ELSE IF b = 237 THEN 128..159 ELSE 128..191)
                  /\ IsCont(s[3])
                  /\ IsUtf8(rest(4))
           ELSE IF b \in 240..244
             THEN /\ n >= 4
                  /\ s[2] \in (IF b = 240 THEN 144..191
                               ELSE IF b = 244 THEN 128..143 ELSE 128..191)
                  /\ IsCont(s[3])
                  /\ IsCont(s[4])
                  /\ IsUtf8(rest(5))
           ELSE FALSE

\* String::from_utf8(res)?  (the padding bytes are ASCII)
FromUtf8(b) == IF IsUtf8(b.body) THEN Ok(b) ELSE ErrDecode

CStringNewUnchecked(cmd) == TRUE

\* CString::new(cmd): fails on an interior NUL byte.
CStringNew(cmd) == \A i \in 1..Len(cmd.body) : cmd.body[i] # 0

\* res.set_len(res_len); String::from_utf8(res): within the capacity the
\* vector holds the bytes the transport wrote.  Above the capacity set_len
\* is undefined behaviour: the build either goes on with the over-long
\* vector or the process dies.
SetLenOutcomes(b) ==
  IF LenB(b) <= BufCap THEN {FromUtf8(b)} ELSE {FromUtf8(b), Aborted}

RequestMatchNoTimeout(code, b) ==
  IF code = 0 THEN SetLenOutcomes(b)
  ELSE IF code = -1 THEN {ErrFailure}
  ELSE {ErrUnknown(code)}

\* The match on the status code in request_helper.
RequestMatch(code, b) ==
  IF code = 0 THEN SetLenOutcomes(b)
  ELSE IF code = -1 THEN {ErrFailure}
  ELSE IF code = -2 THEN {ErrTimeout}
  ELSE {ErrUnknown(code)}

RecvMatchWithTimeout(code, b) == RequestMatch(code, b)

RecvMatchFailureIsEmpty(code, b) ==
  IF code = 0 THEN SetLenOutcomes(b)
  ELSE IF code = -1 THEN {Ok(Empty)}
  ELSE {ErrUnknown(code)}

\* The match on the status code in WpaCtrlAttached::recv.
RecvMatch(code, b) ==
  IF code = 0 THEN SetLenOutcomes(b)
  ELSE IF code = -1 THEN {ErrFailure}
  ELSE {ErrUnknown(code)}

PendingMatchNoFailure(code) ==
  IF code = 0 THEN OkBool(FALSE)
  ELSE IF code = 1 THEN OkBool(TRUE)
  ELSE ErrUnknown(code)

\* The match on the status code in WpaCtrlAttached::pending.
PendingMatch(code) ==
  IF code = 0 THEN OkBool(FALSE)
  ELSE IF code = 1 THEN OkBool(TRUE)
  ELSE IF code = -1 THEN ErrFailure
  ELSE ErrUnknown(code)

MethodsUntyped(kind) ==
  IF kind \in {"Detached", "Attached"}
  THEN {"attach", "detach", "pending", "recv", "request"}
  ELSE {}

\* Methods of impl WpaCtrl and impl WpaCtrlAttached.
Methods(kind) ==
  IF kind = "Detached" THEN {"attach", "request"}
  ELSE IF kind = "Attached" THEN {"detach", "pending", "recv", "request"}
  ELSE {}

TransitionResultAnyReply(r) == IF r.kind # "Ok" THEN r ELSE Ok(Empty)

\* attach()/detach(): the reply check on the result of request_helper.
\* `?` passes an error on; a text other than "OK\n" is Failure.
TransitionResult(r) ==
  IF r.kind # "Ok" THEN r
  ELSE IF r.str # StrOK THEN ErrFailure
  ELSE Ok(Empty)

TransitionDropsNoForget(res) == res.kind # "Abort"

TransitionDropsForgetFirst(res) == FALSE

\* attach()/detach() take self by value: self is dropped at the end of the
\* call on every path except the one that reaches mem::forget(self).
TransitionDrops(res) == res.kind \notin {"Ok", "Abort"}

\* ---- state --------------------------------------------------------------
VARIABLES
  wrapper,     \* per connection: the live wrapper value [kind, h]
  closeCount,  \* per connection: calls of wpa_ctrl_close on its handle
  registered,  \* per connection: daemon side, registered for events
  queue,       \* per connection: events queued by the daemon, oldest first
  queued,      \* per connection: every event the daemon ever queued
  received,    \* per connection: texts returned by successful recv()
  oob,         \* per connection: events handed to the message callback
  pc,          \* per connection: "idle", "request" inside request(), or
               \* "wrapped" inside the msg_cb of that request
  inflight,    \* per connection: command of the request() in progress
  last,        \* per connection: the last finished call and its result
  cmdLog,      \* per connection: commands issued by attach()/detach(), each
               \* with the kind of wrapper that issued it
  prims,       \* per connection: the transport primitives its latest step
               \* invoked, each with the wrapper and the closes it saw
  nOps,        \* per connection: finished API calls
  aborted,     \* the process died
  callback,    \* the closure held by CALLBACK: NoCallback (the initial
               \* no-op closure) or the connection whose callback it is
  mutex,       \* holder of the CALLBACK mutex, NoHolder when free
  cbSeen,      \* per connection: what the callback passed to its request()
               \* calls was invoked with, [from |-> connection, msg |-> text]
  env          \* the inputs of the run: commands the callers pass and
               \* answers the transport and the daemon give

vars == <<wrapper, closeCount, registered, queue, queued, received, oob, pc,
          inflight, last, cmdLog, prims, nOps, aborted, callback, mutex,
          cbSeen, env>>

NoCallback == 0
NoHolder == 0

\* ---- the transport and the daemon behind it -----------------------------
\* Any caller and any daemon: every command, status code, reply and event.
AnyEnv ==
  [cmds |-> Commands, codes |-> RequestCodes, replies |-> Replies,
   events |-> Events, pendingErr |-> PendingErrCodes,
   recvErr |-> RecvErrCodes, handles |-> {NullHandle, 1, 2}, paths |-> BOOLEAN,
   maxOps |-> MaxOps, maxQueue |-> MaxQueue]

\* Callers that send "PING" to a daemon that answers "OK\n" or fails the
\* request, and queues the event "<3>A".
PlainEnv ==
  [cmds |-> {StrPING}, codes |-> {0, -1}, replies |-> {StrOK},
   events |-> {EvA}, pendingErr |-> {}, recvErr |-> {-1}, handles |-> {1, 2},
   paths |-> {TRUE}, maxOps |-> ConcOps, maxQueue |-> ConcQueue]

\* wpa_ctrl_request: reply bytes are written only together with status 0.
TransportReplies(code) == IF code = 0 THEN env.replies ELSE {Empty}

\* wpa_ctrl_pending: 0 = no event queued, 1 = event queued, else an error.
TransportPendingCodes(q) == {IF q = << >> THEN 0 ELSE 1} \cup env.pendingErr

\* wpa_ctrl_recv: 0 hands out the oldest queued event, else an error
\* (-1 is what it reports when nothing is queued).
TransportRecvCodes(q) == (IF q = << >> THEN {} ELSE {0}) \cup env.recvErr

\* wpa_ctrl_open2: a pointer of its own for the connection, or null.
TransportOpen(c) == {HandleOf(c), NullHandle} \cap env.handles

\* The daemon registers a connection as event monitor when it answers
\* "OK\n" to ATTACH and unregisters it when it answers "OK\n" to DETACH.
DaemonRegistered(reg, cmd, code, b) ==
  IF code = 0 /\ b = StrOK /\ cmd = StrATTACH THEN TRUE
  ELSE IF code = 0 /\ b = StrOK /\ cmd = StrDETACH THEN FALSE
  ELSE reg

W(kind, h) == [kind |-> kind, h |-> h]
Call(op, cmd, sent, code, wrote, res) ==
  [op |-> op, cmd |-> cmd, sent |-> sent, code |-> code, wrote |-> wrote,
   res |-> res]
NoCall == Call("none", Empty, FALSE, 0, Empty, NoRes)
Prim(c, name) ==
  [c |-> c, prim |-> name, kind |-> wrapper[c].kind, closed |-> closeCount[c]]

\* The state before any builder is opened; `users` are the connections the
\* program works on.
Start(users, e) ==
  /\ wrapper = [c \in Conns |-> IF c \in users THEN W("Builder", NullHandle)
                                ELSE W("Absent", NullHandle)]
  /\ closeCount = [c \in Conns |-> 0]
  /\ registered = [c \in Conns |-> FALSE]
  /\ queue = [c \in Conns |-> << >>]
  /\ queued = [c \in Conns |-> << >>]
  /\ received = [c \in Conns |-> << >>]
  /\ oob = [c \in Conns |-> << >>]
  /\ pc = [c \in Conns |-> "idle"]
  /\ inflight = [c \in Conns |-> Empty]
  /\ last = [c \in Conns |-> NoCall]
  /\ cmdLog = [c \in Conns |-> << >>]
  /\ prims = [c \in Conns |-> {}]
  /\ nOps = [c \in Conns |-> 0]
  /\ aborted = FALSE
  /\ callback = NoCallback
  /\ mutex = NoHolder
  /\ cbSeen = [c \in Conns |-> << >>]
  /\ env = e

\* One program thread works on connection 1; connection 2 is not used.
Init == Start({1}, AnyEnv)

\* Two program threads, one per connection.
InitConc == Start(Conns, PlainEnv)

\* A call on connection c may start.
CanCall(c, op) ==
  /\ ~aborted
  /\ pc[c] = "idle"
  /\ op \in Methods(wrapper[c].kind)
  /\ nOps[c] < env.maxOps

\* A call on connection c returns (or the process dies in it).
Finish(c, call) ==
  /\ last' = [last EXCEPT ![c] = call]
  /\ nOps' = [nOps EXCEPT ![c] = @ + 1]
  /\ aborted' = (call.res = Aborted)

OpenResultNoNullCheck(handle) == Ok(Empty)

\* The null check on the pointer wpa_ctrl_open2 returned.
OpenResult(handle) ==
  IF handle = NullHandle THEN ErrInterface ELSE Ok(Empty)

\* ---- WpaCtrlBuilder::open -----------------------------------------------
\* CString::new(path)? on the socket paths, wpa_ctrl_open2, the null check.
\* The call is recorded with the returned pointer as its code.
Open(c) ==
  /\ ~aborted
  /\ wrapper[c].kind = "Builder"
  /\ \E pathOk \in env.paths :
       IF ~pathOk
       THEN /\ wrapper' = [wrapper EXCEPT ![c] = W("OpenFailed", NullHandle)]
            /\ last' = [last EXCEPT ![c] =
                          Call("open", Empty, FALSE, NullHandle, Empty, ErrNul)]
            /\ prims' = [prims EXCEPT ![c] = {}]
       ELSE \E handle \in TransportOpen(c) :
              LET res == OpenResult(handle)
              IN  /\ wrapper' = [wrapper EXCEPT ![c] =
                                   IF res.kind = "Ok" THEN W("Detached", handle)
                                   ELSE W("OpenFailed", NullHandle)]
                  /\ last' = [last EXCEPT ![c] =
                                Call("open", Empty, TRUE, handle, Empty, res)]
                  /\ prims' = [prims EXCEPT ![c] = {Prim(c, "open")}]
  /\ UNCHANGED <<closeCount, registered, queue, queued, received, oob, pc,
                 inflight, cmdLog, nOps, aborted, callback, mutex, cbSeen,
                 env>>

\* ---- WpaCtrl::attach and WpaCtrlAttached::detach ------------------------
\* request_helper(self.0, cmd, None), the reply check, then either
\* mem::forget(self) and the new wrapper, or the drop of self.
Transition(c, op, cmd, toKind) ==
  /\ CanCall(c, op)
  /\ \E code \in env.codes : \E b \in TransportReplies(code) :
     \E r \in RequestMatch(code, b) :
       LET res == TransitionResult(r)
           drops == TransitionDrops(res)
       IN  /\ wrapper' = [wrapper EXCEPT ![c] =
                            IF res.kind = "Ok" THEN W(toKind, @.h)
                            ELSE IF drops THEN W("Gone", NullHandle)
                            ELSE @]
           /\ closeCount' = [closeCount EXCEPT ![c] =
                               IF drops THEN @ + 1 ELSE @]
           /\ registered' = [registered EXCEPT ![c] =
                               IF drops THEN FALSE
                               ELSE DaemonRegistered(@, cmd, code, b)]
           /\ prims' = [prims EXCEPT ![c] =
                          {Prim(c, "request")} \cup
                          (IF drops THEN {Prim(c, "close")} ELSE {})]
           /\ Finish(c, Call(op, cmd, TRUE, code, b, res))
  /\ cmdLog' = [cmdLog EXCEPT ![c] =
                  Append(@, [cmd |-> cmd, from |-> wrapper[c].kind])]
  /\ UNCHANGED <<queue, queued, received, oob, pc, inflight, callback, mutex,
                 cbSeen, env>>

Attach(c) == Transition(c, "attach", StrATTACH, "Attached")

DetachStaysAttached(c) == Transition(c, "detach", StrDETACH, "Attached")

Detach(c) == Transition(c, "detach", StrDETACH, "Detached")

\* ---- WpaCtrl::request (no callback) -------------------------------------
RequestDetached(c) ==
  /\ CanCall(c, "request")
  /\ wrapper[c].kind = "Detached"
  /\ \E cmd \in env.cmds :
       IF ~CStringNew(cmd)
       THEN /\ Finish(c, Call("request", cmd, FALSE, 0, Empty, ErrNul))
            /\ prims' = [prims EXCEPT ![c] = {}]
            /\ UNCHANGED registered
       ELSE \E code \in env.codes : \E b \in TransportReplies(code) :
            \E r \in RequestMatch(code, b) :
              /\ registered' = [registered EXCEPT ![c] =
                                  DaemonRegistered(@, cmd, code, b)]
              /\ prims' = [prims EXCEPT ![c] = {Prim(c, "request")}]
              /\ Finish(c, Call("request", cmd, TRUE, code, b, r))
  /\ UNCHANGED <<wrapper, closeCount, queue, queued, received, oob, pc,
                 inflight, cmdLog, callback, mutex, cbSeen, env>>

InstallCallbackStores(slot, c) == c

\* request_cb(Some(f)): f is matched as Some(_) and never stored, CALLBACK
\* keeps the closure it holds.
InstallCallback(slot, c) == slot

\* ---- WpaCtrlAttached::request (with callback) ---------------------------
\* The call enters wpa_ctrl_request, or fails in CString::new before it.
RequestAttachedBegin(c) ==
  /\ CanCall(c, "request")
  /\ wrapper[c].kind = "Attached"
  /\ \E cmd \in env.cmds :
       IF ~CStringNew(cmd)
       THEN /\ Finish(c, Call("request", cmd, FALSE, 0, Empty, ErrNul))
            /\ prims' = [prims EXCEPT ![c] = {}]
            /\ UNCHANGED <<pc, inflight, callback>>
       ELSE /\ pc' = [pc EXCEPT ![c] = "request"]
            /\ inflight' = [inflight EXCEPT ![c] = cmd]
            /\ prims' = [prims EXCEPT ![c] = {Prim(c, "request")}]
            /\ callback' = InstallCallback(callback, c)
            /\ UNCHANGED <<last, nOps, aborted>>
  /\ UNCHANGED <<wrapper, closeCount, registered, queue, queued, received,
                 oob, cmdLog, mutex, cbSeen, env>>

\* While waiting for the reply the transport sees the oldest queued event
\* and hands it to msg_cb (`wrapped`), which takes the CALLBACK mutex.
OobDeliver(c) ==
  /\ ~aborted
  /\ pc[c] = "request"
  /\ queue[c] # << >>
  /\ mutex = NoHolder
  /\ mutex' = c
  /\ pc' = [pc EXCEPT ![c] = "wrapped"]
  /\ queue' = [queue EXCEPT ![c] = Tail(@)]
  /\ oob' = [oob EXCEPT ![c] = Append(@, Head(queue[c]))]
  /\ UNCHANGED <<wrapper, closeCount, registered, queued, received, inflight,
                 last, cmdLog, prims, nOps, aborted, callback, cbSeen, env>>

\* `wrapped` calls the closure CALLBACK holds with the event text, then its
\* lock guard goes out of scope and the transport goes on waiting.
WrappedCall(c) ==
  /\ ~aborted
  /\ pc[c] = "wrapped"
  /\ mutex = c
  /\ cbSeen' = IF callback = NoCallback THEN cbSeen
               ELSE [cbSeen EXCEPT ![callback] =
                       Append(@, [from |-> c, msg |-> oob[c][Len(oob[c])]])]
  /\ mutex' = NoHolder
  /\ pc' = [pc EXCEPT ![c] = "request"]
  /\ UNCHANGED <<wrapper, closeCount, registered, queue, queued, received,
                 oob, inflight, last, cmdLog, prims, nOps, aborted, callback,
                 env>>

\* wpa_ctrl_request returns and request_helper maps its status.
RequestAttachedEnd(c) ==
  /\ ~aborted
  /\ pc[c] = "request"
  /\ \E code \in env.codes : \E b \in TransportReplies(code) :
     \E r \in RequestMatch(code, b) :
       /\ registered' = [registered EXCEPT ![c] =
                           DaemonRegistered(@, inflight[c], code, b)]
       /\ Finish(c, Call("request", inflight[c], TRUE, code, b, r))
  /\ pc' = [pc EXCEPT ![c] = "idle"]
  /\ inflight' = [inflight EXCEPT ![c] = Empty]
  /\ UNCHANGED <<wrapper, closeCount, queue, queued, received, oob, cmdLog,
                 prims, callback, mutex, cbSeen, env>>

PendingConsumes(c) ==
  /\ CanCall(c, "pending")
  /\ \E code \in TransportPendingCodes(queue[c]) :
       Finish(c, Call("pending", Empty, TRUE, code, Empty, PendingMatch(code)))
  /\ prims' = [prims EXCEPT ![c] = {Prim(c, "pending"), Prim(c, "close")}]
  /\ wrapper' = [wrapper EXCEPT ![c] = W("Gone", NullHandle)]
  /\ closeCount' = [closeCount EXCEPT ![c] = @ + 1]
  /\ UNCHANGED <<registered, queue, queued, received, oob, pc, inflight,
                 cmdLog, callback, mutex, cbSeen, env>>

\* ---- WpaCtrlAttached::pending -------------------------------------------
Pending(c) ==
  /\ CanCall(c, "pending")
  /\ \E code \in TransportPendingCodes(queue[c]) :
       Finish(c, Call("pending", Empty, TRUE, code, Empty, PendingMatch(code)))
  /\ prims' = [prims EXCEPT ![c] = {Prim(c, "pending")}]
  /\ UNCHANGED <<wrapper, closeCount, registered, queue, queued, received,
                 oob, pc, inflight, cmdLog, callback, mutex, cbSeen, env>>

\* ---- WpaCtrlAttached::recv ----------------------------------------------
Recv(c) ==
  /\ CanCall(c, "recv")
  /\ \E code \in TransportRecvCodes(queue[c]) :
       LET b == IF code = 0 THEN Head(queue[c]) ELSE Empty
       IN  \E r \in RecvMatch(code, b) :
             /\ queue' = [queue EXCEPT ![c] = IF code = 0 THEN Tail(@) ELSE @]
             /\ received' = [received EXCEPT ![c] =
                               IF r.kind = "Ok" THEN Append(@, r.str) ELSE @]
             /\ Finish(c, Call("recv", Empty, TRUE, code, b, r))
  /\ prims' = [prims EXCEPT ![c] = {Prim(c, "recv")}]
  /\ UNCHANGED <<wrapper, closeCount, registered, queued, oob, pc, inflight,
                 cmdLog, callback, mutex, cbSeen, env>>

\* ---- Drop for WpaCtrl / Drop for WpaCtrlAttached ------------------------
DropConn(c) ==
  /\ ~aborted
  /\ pc[c] = "idle"
  /\ wrapper[c].kind \in {"Detached", "Attached"}
  /\ wrapper' = [wrapper EXCEPT ![c] = W("Gone", NullHandle)]
  /\ closeCount' = [closeCount EXCEPT ![c] = @ + 1]
  /\ registered' = [registered EXCEPT ![c] = FALSE]
  /\ prims' = [prims EXCEPT ![c] = {Prim(c, "close")}]
  /\ UNCHANGED <<queue, queued, received, oob, pc, inflight, last, cmdLog,
                 nOps, aborted, callback, mutex, cbSeen, env>>

\* ---- the daemon queues an event for a registered connection -------------
DaemonEvent(c) ==
  /\ ~aborted
  /\ registered[c]
  /\ Len(queued[c]) < env.maxQueue
  /\ \E e \in env.events :
       /\ queue' = [queue EXCEPT ![c] = Append(@, e)]
       /\ queued' = [queued EXCEPT ![c] = Append(@, e)]
  /\ UNCHANGED <<wrapper, closeCount, registered, received, oob, pc,
                 inflight, last, cmdLog, prims, nOps, aborted, callback,
                 mutex, cbSeen, env>>

Next ==
  \E c \in Conns :
    \/ Open(c)
    \/ Attach(c)
    \/ Detach(c)
    \/ RequestDetached(c)
    \/ RequestAttachedBegin(c)
    \/ OobDeliver(c)
    \/ WrappedCall(c)
    \/ RequestAttachedEnd(c)
    \/ Pending(c)
    \/ Recv(c)
    \/ DropConn(c)
    \/ DaemonEvent(c)

Spec == Init /\ [][Next]_vars

\* The same program with a thread on each of the two connections.
SpecConc == InitConc /\ [][Next]_vars

\* ---- helpers for the properties -----------------------------------------
Live(c) == wrapper[c].kind \in {"Detached", "Attached"}

\* The step is the return of a call of `op` on connection c.
Returns(c, op) == nOps'[c] = nOps[c] + 1 /\ last'[c].op = op

IsPrefix(s, t) == Len(s) <= Len(t) /\ SubSeq(t, 1, Len(s)) = s

RECURSIVE IsSubseq(_, _)
IsSubseq(s, t) ==
  IF s = << >> THEN TRUE
  ELSE IF t = << >> THEN FALSE
  ELSE IF Head(s) = Head(t) THEN IsSubseq(Tail(s), Tail(t))
  ELSE IsSubseq(s, Tail(t))

\* ---- C1 -----------------------------------------------------------------
\* C1: wpa_ctrl_close is never invoked twice on a handle; while a wrapper
\* owns the handle it has not been closed, and once the wrapper is gone
\* (dropped by the caller or inside a failed attach/detach) it has been
\* closed exactly once.
C1_ExactlyOneClose ==
  \A c \in Conns :
    /\ closeCount[c] <= 1
    /\ Live(c) => closeCount[c] = 0
    /\ wrapper[c].kind = "Gone" => closeCount[c] = 1
    /\ wrapper[c].kind \in {"Absent", "Builder", "OpenFailed"}
         => closeCount[c] = 0

\* A full attach/detach round trip, then the drop of the Detached wrapper.
C1_Witness ==
  \E c \in Conns :
    /\ wrapper[c].kind = "Gone"
    /\ closeCount[c] = 1
    /\ Len(cmdLog[c]) = 2
    /\ last[c].op = "detach"
    /\ last[c].res.kind = "Ok"

\* ---- C2 -----------------------------------------------------------------
\* The command attach()/detach() sends and the kind of wrapper it produces.
TransitionCmd(op) == IF op = "attach" THEN StrATTACH ELSE StrDETACH
TransitionTo(op) == IF op = "attach" THEN "Attached" ELSE "Detached"

\* C2 as stated (for replies that fit the buffer): attach()/detach() send
\* exactly "ATTACH"/"DETACH", succeed iff the transport reports status 0
\* with the reply "OK\n", and fail with Failure for every other reply body.
C2_AnyOtherReplyIsFailure ==
  \A c \in Conns :
    last[c].op \in {"attach", "detach"} =>
      /\ last[c].sent /\ last[c].cmd = TransitionCmd(last[c].op)
      /\ last[c].res.kind = "Ok"
           <=> (last[c].code = 0 /\ last[c].wrote = StrOK)
      /\ (last[c].code = 0 /\ last[c].wrote # StrOK
            /\ LenB(last[c].wrote) <= BufCap)
           => last[c].res = ErrFailure

\* C2 (amended): attach()/detach() send exactly "ATTACH"/"DETACH" and
\* produce the Attached/Detached wrapper iff the transport reports status 0
\* with the reply "OK\n"; any other reply body that is valid UTF-8 gives
\* Failure, and a reply body that is not valid UTF-8 gives DecodeError.
C2_ReplyMustBeOK ==
  [][\A c \in Conns : \A op \in {"attach", "detach"} :
       Returns(c, op) =>
         LET l == last'[c] IN
         /\ l.sent /\ l.cmd = TransitionCmd(op)
         /\ l.res.kind = "Ok" <=> (l.code = 0 /\ l.wrote = StrOK)
         /\ l.res.kind = "Ok" <=> wrapper'[c].kind = TransitionTo(op)
         /\ (l.code = 0 /\ l.wrote # StrOK /\ LenB(l.wrote) <= BufCap)
              => l.res = (IF IsUtf8(l.wrote.body) THEN ErrFailure
                          ELSE ErrDecode)]_vars

\* detach() answered "PONG\n": Failure.
C2_Witness ==
  \E c \in Conns :
    /\ last[c].op = "detach"
    /\ last[c].code = 0
    /\ last[c].wrote = StrPONG
    /\ last[c].res = ErrFailure

\* ---- C3 -----------------------------------------------------------------
\* C3: when attach() gets a reply other than "OK\n", the handle is still
\* open afterwards and the caller still holds the Detached connection.
C3_FailedAttachKeepsHandle ==
  [][\A c \in Conns :
       (/\ Returns(c, "attach")
        /\ last'[c].code = 0
        /\ last'[c].wrote # StrOK
        /\ last'[c].res.kind # "Abort")
       => /\ closeCount'[c] = 0
          /\ wrapper'[c] = wrapper[c]]_vars

\* ---- C4 -----------------------------------------------------------------
\* C4: a successful attach() keeps the handle and closes nothing, and a
\* successful detach() directly after it yields a Detached wrapper that owns
\* the handle the connection had before, with no close, offering request
\* and attach but not pending or recv.
C4_RoundTrip ==
  [][\A c \in Conns :
       /\ (Returns(c, "attach") /\ last'[c].res.kind = "Ok")
            => /\ wrapper[c].kind = "Detached"
               /\ wrapper'[c] = W("Attached", wrapper[c].h)
               /\ wrapper[c].h = HandleOf(c)
               /\ closeCount'[c] = 0
       /\ (/\ Returns(c, "detach") /\ last'[c].res.kind = "Ok"
           /\ last[c].op = "attach" /\ last[c].res.kind = "Ok")
            => /\ wrapper'[c] = W("Detached", wrapper[c].h)
               /\ wrapper[c].h = HandleOf(c)
               /\ closeCount'[c] = 0
               /\ Methods(wrapper'[c].kind) = {"attach", "request"}]_vars

\* Two round trips in a row on the same handle.
C4_Witness ==
  \E c \in Conns :
    /\ Len(cmdLog[c]) = 4
    /\ last[c].op = "detach"
    /\ last[c].res.kind = "Ok"
    /\ wrapper[c] = W("Detached", HandleOf(c))
    /\ closeCount[c] = 0

\* ---- C5 -----------------------------------------------------------------
\* C5: wpa_ctrl_pending and wpa_ctrl_recv are invoked only through an
\* Attached wrapper; attach() is called only on a Detached wrapper and
\* detach() only on an Attached one, so the commands they issue on one
\* handle alternate ATTACH, DETACH, ATTACH, ... starting with ATTACH.
C5_TypeState ==
  /\ \A c \in Conns : \A p \in prims[c] :
       p.prim \in {"pending", "recv"} => p.kind = "Attached"
  /\ \A c \in Conns : \A i \in 1..Len(cmdLog[c]) :
       cmdLog[c][i] = (IF i % 2 = 1
                       THEN [cmd |-> StrATTACH, from |-> "Detached"]
                       ELSE [cmd |-> StrDETACH, from |-> "Attached"])

\* ATTACH, DETACH, ATTACH were issued and wpa_ctrl_recv was just invoked.
C5_Witness ==
  \E c \in Conns :
    /\ Len(cmdLog[c]) = 3
    /\ \E p \in prims[c] : p.prim = "recv"

\* ---- C6 -----------------------------------------------------------------
\* C6 as stated (for replies that fit the buffer): request() gives the
\* reply bytes for status 0, Failure for -1, Timeout for -2 and Unknown(x)
\* for every other status x.
C6_StatusZeroIsSuccess ==
  \A c \in Conns :
    (last[c].op = "request" /\ last[c].sent
       /\ LenB(last[c].wrote) <= BufCap)
    => last[c].res = (IF last[c].code = 0 THEN Ok(last[c].wrote)
                      ELSE IF last[c].code = -1 THEN ErrFailure
                      ELSE IF last[c].code = -2 THEN ErrTimeout
                      ELSE ErrUnknown(last[c].code))

\* C6 (amended): for a reply that fits the buffer, status 0 gives the reply
\* bytes exactly as written when they are valid UTF-8 and DecodeError when
\* they are not; -1 gives Failure, -2 Timeout, any other status x
\* Unknown(x).
C6_StatusMapping ==
  \A c \in Conns :
    (last[c].op = "request" /\ last[c].sent
       /\ LenB(last[c].wrote) <= BufCap)
    => last[c].res = (IF last[c].code = 0
                        THEN (IF IsUtf8(last[c].wrote.body)
                              THEN Ok(last[c].wrote) ELSE ErrDecode)
                      ELSE IF last[c].code = -1 THEN ErrFailure
                      ELSE IF last[c].code = -2 THEN ErrTimeout
                      ELSE ErrUnknown(last[c].code))

\* "PING" answered "PONG\n".
C6_Witness ==
  \E c \in Conns :
    /\ last[c].op = "request"
    /\ last[c].cmd = StrPING
    /\ last[c].code = 0
    /\ last[c].res = Ok(StrPONG)

\* ---- C7 -----------------------------------------------------------------
\* C7: pending() returns true exactly for status 1, which the transport
\* reports only with an event queued, and false exactly for status 0, which
\* it reports only with none queued; -1 gives Failure, any other status x
\* Unknown(x); and the call removes no event.
C7_Pending ==
  [][\A c \in Conns :
       Returns(c, "pending") =>
         LET l == last'[c] IN
         /\ wrapper[c].kind = "Attached"
         /\ l.res = (IF l.code = 1 THEN OkBool(TRUE)
                     ELSE IF l.code = 0 THEN OkBool(FALSE)
                     ELSE IF l.code = -1 THEN ErrFailure
                     ELSE ErrUnknown(l.code))
         /\ l.res = OkBool(TRUE) => queue[c] # << >>
         /\ l.res = OkBool(FALSE) => queue[c] = << >>
         /\ queue'[c] = queue[c]
         /\ queued'[c] = queued[c]
         /\ received'[c] = received[c]]_vars

\* pending() right after attach(), before the daemon queued anything.
C7_Witness ==
  \E c \in Conns :
    /\ last[c].op = "pending"
    /\ last[c].res = OkBool(FALSE)
    /\ nOps[c] = 2
    /\ queued[c] = << >>

\* ---- C8 -----------------------------------------------------------------
\* C8: recv() with no event queued returns an error, never a message and
\* never a crash: Failure for the status -1 the transport reports when
\* nothing is available; for any status other than 0 and -1 (-2 included)
\* recv() returns Unknown(status), never Timeout.
C8_RecvErrors ==
  [][\A c \in Conns :
       Returns(c, "recv") =>
         LET l == last'[c] IN
         /\ queue[c] = << >> =>
              /\ l.res.kind \in {"Failure", "Unknown"}
              /\ l.code = -1 => l.res = ErrFailure
              /\ received'[c] = received[c]
         /\ l.code = -1 => l.res = ErrFailure
         /\ l.code \notin {0, -1} => l.res = ErrUnknown(l.code)
         /\ l.res.kind # "Timeout"]_vars

\* recv() right after attach() with nothing queued: Failure.
C8_Witness ==
  \E c \in Conns :
    /\ last[c].op = "recv"
    /\ last[c].res = ErrFailure
    /\ nOps[c] = 2
    /\ queued[c] = << >>

\* ---- C9 -----------------------------------------------------------------
\* C9 as stated (when no event was handed to the message callback and
\* every event fits the buffer): the texts returned by successful recv()
\* calls are a prefix of the events the daemon queued.
C9_ReceivedIsPrefix ==
  \A c \in Conns :
    (/\ oob[c] = << >>
     /\ \A i \in 1..Len(queued[c]) : LenB(queued[c][i]) <= BufCap)
    => IsPrefix(received[c], queued[c])

\* What a step may do to the events of connection c.
C9_Step(c) ==
  /\ Returns(c, "recv") =>
       IF last'[c].code = 0
       THEN /\ queue[c] # << >>
            /\ queue'[c] = Tail(queue[c])
            /\ last'[c].wrote = Head(queue[c])
            /\ received'[c] = (IF last'[c].res.kind = "Ok"
                               THEN Append(received[c], Head(queue[c]))
                               ELSE received[c])
            /\ last'[c].res.kind \in {"Ok", "DecodeError", "Abort"}
            /\ last'[c].res.kind = "DecodeError"
                 <=> ~IsUtf8(Head(queue[c]).body)
       ELSE queue'[c] = queue[c] /\ received'[c] = received[c]
  /\ Returns(c, "pending") => queue'[c] = queue[c]
  /\ (Returns(c, "request") /\ oob'[c] = oob[c]) => queue'[c] = queue[c]
  /\ queue'[c] # queue[c] =>
       \/ /\ Len(queued'[c]) = Len(queued[c]) + 1
          /\ queue'[c] = Append(queue[c], queued'[c][Len(queued'[c])])
       \/ Returns(c, "recv")
       \/ /\ pc[c] = "request"
          /\ queue'[c] = Tail(queue[c])
          /\ oob'[c] = Append(oob[c], Head(queue[c]))

\* C9 (amended): the texts returned by successful recv() calls are, in the
\* daemon's order, a subsequence of the events it queued; every recv() the
\* transport answers with status 0 removes exactly the oldest event,
\* returning it when it is valid UTF-8 and failing with DecodeError, the
\* event consumed, when it is not; the layer keeps no queue of its own:
\* pending(), recv() with a non-zero status and request() without
\* out-of-band delivery leave the daemon's queue unchanged.
C9_Fifo ==
  /\ [](\A c \in Conns :
          /\ IsSubseq(received[c], queued[c])
          /\ Len(queue[c]) <= Len(queued[c])
          /\ queue[c] = SubSeq(queued[c],
                               Len(queued[c]) - Len(queue[c]) + 1,
                               Len(queued[c]))
          /\ Len(received[c]) + Len(oob[c]) + Len(queue[c])
               <= Len(queued[c]))
  /\ [][\A c \in Conns : C9_Step(c)]_vars

\* An undecodable event was consumed by a failed recv(), the next recv()
\* returned the event queued after it.
C9_Witness ==
  \E c \in Conns :
    /\ queued[c] = <<EvBad, EvA>>
    /\ received[c] = <<EvA>>
    /\ queue[c] = << >>
    /\ oob[c] = << >>

\* ---- C10 ----------------------------------------------------------------
\* C10: whatever length the transport declares, request() and recv() never
\* produce a reply longer than the buffer capacity, and the call returns.
C10_NoOverflow ==
  \A c \in Conns :
    last[c].op \in {"request", "recv"} =>
      /\ LenB(last[c].res.str) <= BufCap
      /\ last[c].res.kind # "Abort"

\* ---- C11 ----------------------------------------------------------------
\* C11: whenever the transport reports status 0 with bytes that are not
\* valid UTF-8, request() and recv() return DecodeError (no text, no crash)
\* and the wrapper stays as it was, its handle not closed.
C11_InvalidUtf8IsDecodeError ==
  [][\A c \in Conns : \A op \in {"request", "recv"} :
       (/\ Returns(c, op)
        /\ last'[c].sent
        /\ last'[c].code = 0
        /\ ~IsUtf8(last'[c].wrote.body))
       => /\ last'[c].res = ErrDecode
          /\ wrapper'[c] = wrapper[c]
          /\ closeCount'[c] = closeCount[c]]_vars

\* ---- C12 ----------------------------------------------------------------
HasNul(b) == \E i \in 1..Len(b.body) : b.body[i] = 0

\* C12: a request() whose command text holds a NUL byte returns the
\* InvalidCommand error without any transport primitive being invoked, and
\* leaves the wrapper, its handle and the daemon side as they were, the
\* connection ready for its next call.
C12_NulCommandNotSent ==
  [][\A c \in Conns :
       (Returns(c, "request") /\ HasNul(last'[c].cmd))
       => /\ last'[c].res = ErrNul
          /\ ~last'[c].sent
          /\ prims'[c] = {}
          /\ wrapper'[c] = wrapper[c]
          /\ closeCount'[c] = closeCount[c]
          /\ registered'[c] = registered[c]
          /\ queue'[c] = queue[c]
          /\ pc'[c] = "idle"
          /\ ~aborted'
          /\ "request" \in Methods(wrapper'[c].kind)]_vars

\* An attached connection has just refused a command with a NUL byte.
C12_Witness ==
  \E c \in Conns :
    /\ wrapper[c].kind = "Attached"
    /\ last[c].op = "request"
    /\ HasNul(last[c].cmd)
    /\ last[c].res = ErrNul
    /\ prims[c] = {}

\* ---- C13 ----------------------------------------------------------------
\* C13: every event the transport hands to the message callback of a
\* request() in flight reaches the callback that was passed to that call
\* before the call returns: when the call returns its callback has seen
\* exactly the events handed over, in order, and it is invoked at no other
\* time.
C13_CallbackSeesOob ==
  [][\A c \in Conns :
       /\ (Returns(c, "request") /\ wrapper[c].kind = "Attached" /\ ~aborted')
          => cbSeen'[c] = [i \in 1..Len(oob[c]) |-> [from |-> c, msg |-> oob[c][i]]]
       /\ cbSeen'[c] # cbSeen[c] => pc[c] = "wrapped"]_vars

\* ---- C14 ----------------------------------------------------------------
InFlight(c) == pc[c] \in {"request", "wrapped"}

\* C14: at every instant at most one request() with a callback is in
\* flight, whatever the interleaving of the threads.
C14_OneRequestInFlight ==
  Cardinality({c \in Conns : InFlight(c)}) <= 1

\* ---- C15 ----------------------------------------------------------------
\* C15: with requests in flight on two connections, the callback passed to
\* the request on one connection is never invoked with an event that was
\* queued for the other connection.
C15_NoCrossedCallback ==
  \A c \in Conns : \A i \in 1..Len(cbSeen[c]) : cbSeen[c][i].from = c

\* Requests are in flight on both connections and the transport has handed
\* an event of each to the message callback.
C15_Witness ==
  /\ \A c \in Conns : InFlight(c) /\ oob[c] # << >>
  /\ mutex = NoHolder

\* ---- C16 ----------------------------------------------------------------
\* C16: open() yields a detached connection exactly when wpa_ctrl_open2
\* returned a non-null pointer, and that connection owns this pointer; on a
\* null pointer it returns the Interface error, no connection exists and
\* wpa_ctrl_close is never called for the attempt.
C16_OpenIffHandle ==
  /\ [](\A c \in Conns :
          wrapper[c].kind = "OpenFailed"
          => closeCount[c] = 0 /\ \A p \in prims[c] : p.prim = "open")
  /\ [][\A c \in Conns :
          (wrapper[c].kind = "Builder" /\ wrapper'[c].kind # "Builder")
          => /\ last'[c].op = "open"
             /\ (last'[c].sent /\ last'[c].code # NullHandle)
                <=> wrapper'[c].kind = "Detached"
             /\ wrapper'[c].kind = "Detached"
                => last'[c].res.kind = "Ok" /\ wrapper'[c].h = last'[c].code
             /\ (last'[c].sent /\ last'[c].code = NullHandle)
                => /\ last'[c].res = ErrInterface
                   /\ wrapper'[c] = W("OpenFailed", NullHandle)
             /\ closeCount'[c] = 0]_vars

\* wpa_ctrl_open2 returned null and open() reported the Interface error.
C16_Witness ==
  \E c \in Conns :
    /\ last[c].op = "open"
    /\ last[c].sent
    /\ last[c].code = NullHandle
    /\ last[c].res = ErrInterface
    /\ wrapper[c].kind = "OpenFailed"

\* ---- C17 ----------------------------------------------------------------
\* C17: a handle that is open is owned by exactly one live wrapper, a handle
\* that was closed is owned by none, and every primitive other than open is
\* invoked by a live wrapper on a handle that has not been closed.
C17_SingleOwner ==
  /\ \A c \in Conns :
       /\ Live(c) => wrapper[c].h = HandleOf(c) /\ closeCount[c] = 0
       /\ closeCount[c] > 0 => wrapper[c] = W("Gone", NullHandle)
       /\ \A p \in prims[c] :
            p.prim # "open"
            => p.closed = 0 /\ p.kind \in {"Detached", "Attached"}
  /\ \A c, d \in Conns :
       (Live(c) /\ Live(d) /\ wrapper[c].h = wrapper[d].h) => c = d

\* A handle went from the detached wrapper to the attached one and back and
\* was then closed by the drop of the last wrapper.
C17_Witness ==
  \E c \in Conns :
    /\ last[c].op = "detach"
    /\ last[c].res.kind = "Ok"
    /\ wrapper[c].kind = "Gone"
    /\ closeCount[c] = 1
    /\ prims[c] = {[c |-> c, prim |-> "close", kind |-> "Detached",
                    closed |-> 0]}

\* ---- C18 ----------------------------------------------------------------
\* C18: whenever an attached wrapper is live, the daemon has its handle
\* registered for events.
C18_AttachedIsRegistered ==
  \A c \in Conns : wrapper[c].kind = "Attached" => registered[c]

\* ---- C19 ----------------------------------------------------------------
Outcomes ==
  {"Ok", "OkTrue", "OkFalse", "Failure", "Timeout", "Unknown", "DecodeError",
   "InvalidCommand"}

\* C19: request(), pending() and recv() leave the wrapper and its handle as
\* they were whichever result they return, success or error: the same
\* wrapper is live afterwards, nothing was closed, and it is ready for a
\* following call.
C19_NonConsuming ==
  [][\A c \in Conns : \A op \in {"request", "pending", "recv"} :
       (Returns(c, op) /\ last'[c].res.kind \in Outcomes)
       => /\ wrapper'[c] = wrapper[c]
          /\ Live(c)'
          /\ closeCount'[c] = closeCount[c]
          /\ \A p \in prims'[c] : p.prim # "close"
          /\ pc'[c] = "idle"
          /\ ~aborted'
          /\ op \in Methods(wrapper'[c].kind)]_vars

\* An attached wrapper is live after a request that timed out, which it
\* made after another call.
C19_Witness ==
  \E c \in Conns :
    /\ last[c].op = "request"
    /\ last[c].res = ErrTimeout
    /\ wrapper[c].kind = "Attached"
    /\ closeCount[c] = 0
    /\ nOps[c] >= 3

\* ---- C20 ----------------------------------------------------------------
\* C20: an attach() or detach() that returns an error has dropped the
\* wrapper inside the call: the handle was closed exactly once and no live
\* wrapper remains; one that succeeds closes nothing.
C20_FailedTransitionCloses ==
  [][\A c \in Conns : \A op \in {"attach", "detach"} :
       (Returns(c, op) /\ last'[c].res.kind # "Abort")
       => IF last'[c].res.kind = "Ok"
          THEN closeCount'[c] = closeCount[c] /\ Live(c)'
          ELSE /\ closeCount[c] = 0
               /\ closeCount'[c] = 1
               /\ wrapper'[c] = W("Gone", NullHandle)
               /\ ~Live(c)'
               /\ \E p \in prims'[c] : p.prim = "close" /\ p.closed = 0]_vars

\* A detach() that timed out has closed the handle of the attached wrapper.
C20_Witness ==
  \E c \in Conns :
    /\ last[c].op = "detach"
    /\ last[c].res = ErrTimeout
    /\ wrapper[c].kind = "Gone"
    /\ closeCount[c] = 1
====
